---------------------------- MODULE Spec2Model ----------------------------
(***************************************************************************)
(* confman (confman.py): synchronisation of a source tree of configuration *)
(* fragments into a destination tree.  The model covers the filename       *)
(* classification registry, the tree built by ConfigSource.analyze, the    *)
(* check pass and the sync pass of ConfigSource.execute, and the file      *)
(* system the actions read and write (directories, regular files and       *)
(* symbolic links, with the kernel's path resolution).                     *)
(*                                                                         *)
(* A file name is a sequence of one-character strings, a path a sequence   *)
(* of names from the root, a file's contents a sequence of tokens.         *)
(***************************************************************************)
EXTENDS Integers, Sequences, FiniteSets, TLC

(***************************************************************************)
(* Bounds of the model.                                                    *)
(***************************************************************************)
\* number of public calls (sync, analyze, execute) made on one ConfigSource
MaxCalls == 2
\* symbolic links followed while resolving one path before ELOOP
MaxLinkHops == 4

(***************************************************************************)
(* Names and the markers of the filename conventions.                      *)
(***************************************************************************)
NL == "\n"
DOT == <<".">>
DOTDOT == <<".", ".">>
EMPTYNAME == <<>>
DOT_COPY == <<".", "c", "o", "p", "y">>
DOT_COPYONCE == <<".", "c", "o", "p", "y", "o", "n", "c", "e">>
DOT_EMPTY == <<".", "e", "m", "p", "t", "y">>
DOT_PPY == <<".", "p", ".", "p", "y">>
DOT_F == <<".", "F">>
DOT_GIT == <<".", "g", "i", "t">>
DOT_GITIGNORE == <<".", "g", "i", "t", "i", "g", "n", "o", "r", "e">>
UNDERSCORE == "_"

StartsWith(s, pre) ==
    /\ Len(s) >= Len(pre)
    /\ SubSeq(s, 1, Len(pre)) = pre

EndsWith(s, suf) ==
    /\ Len(s) >= Len(suf)
    /\ SubSeq(s, Len(s) - Len(suf) + 1, Len(s)) = suf

\* re.search of the pattern "<lit>$": the index at which the match starts,
\* 0 when there is none.  "$" matches at the end of the string and also
\* just before a newline that ends the string.
ReSearchEnd(s, lit) ==
    IF EndsWith(s, lit) THEN Len(s) - Len(lit) + 1
    ELSE IF EndsWith(s, lit \o <<NL>>) THEN Len(s) - Len(lit)
    ELSE 0

\* re.sub("<lit>$", "", s): the matched text is removed, a newline after
\* it stays.
ReSubEnd(s, lit) ==
    LET i == ReSearchEnd(s, lit)
    IN  IF i = 0 THEN s
        ELSE SubSeq(s, 1, i - 1) \o SubSeq(s, i + Len(lit), Len(s))

\* re.match of "<lit>$": the whole string is lit, up to a final newline.
ReMatchWhole(s, lit) == s = lit \/ s = lit \o <<NL>>

(***************************************************************************)
(* Action.matches of every class.  A verdict is False (try the next        *)
(* class), None (ignore the file) or the destination name.                 *)
(***************************************************************************)
VFalse == [kind |-> "False", dest |-> EMPTYNAME]
VNone == [kind |-> "None", dest |-> EMPTYNAME]
VStr(d) == [kind |-> "Str", dest |-> d]

SymlinkMatches(filename) == VStr(filename)

SuffixMatches(filename, lit) ==
    IF ReSearchEnd(filename, lit) # 0 THEN VStr(ReSubEnd(filename, lit))
    ELSE VFalse

CopyMatches(filename) == SuffixMatches(filename, DOT_COPY)

CopyOnceMatches(filename) == SuffixMatches(filename, DOT_COPYONCE)

EmptyMatches(filename) == SuffixMatches(filename, DOT_EMPTY)

ProgrammableMatches(filename) == SuffixMatches(filename, DOT_PPY)

\* IGNORED = re.compile(r'_|\.git$|\.gitignore$'), used with match()
IgnoreMatches(filename) ==
    IF \/ StartsWith(filename, <<UNDERSCORE>>)
       \/ ReMatchWhole(filename, DOT_GIT)
       \/ ReMatchWhole(filename, DOT_GITIGNORE)
    THEN VNone
    ELSE VFalse

Matches(cls, filename) ==
    CASE cls = "Programmable" -> ProgrammableMatches(filename)
      [] cls = "Ignore" -> IgnoreMatches(filename)
      [] cls = "Empty" -> EmptyMatches(filename)
      [] cls = "Copy" -> CopyMatches(filename)
      [] cls = "CopyOnce" -> CopyOnceMatches(filename)
      [] cls = "Symlink" -> SymlinkMatches(filename)

DEFAULT_CLASSES ==
    <<"Programmable", "Ignore", "Empty", "Copy", "CopyOnce", "Symlink">>

\* _get_file_class as it would be with the test "if dest:", which takes
\* None and the empty name for False
RECURSIVE GetFileClassTruthy(_, _, _)
GetFileClassTruthy(classes, filename, i) ==
    IF i > Len(classes) THEN [cls |-> "", verdict |-> VFalse]
    ELSE LET dest == Matches(classes[i], filename)
         IN  IF dest.kind = "Str" /\ dest.dest # EMPTYNAME
             THEN [cls |-> classes[i], verdict |-> dest]
             ELSE GetFileClassTruthy(classes, filename, i + 1)

\* ConfigSource._get_file_class: the first class whose verdict is not
\* False; cls "" stands for the ConfmanException "No class found".
RECURSIVE GetFileClassFrom(_, _, _)
GetFileClassFrom(classes, filename, i) ==
    IF i > Len(classes) THEN [cls |-> "", verdict |-> VFalse]
    ELSE LET dest == Matches(classes[i], filename)
         IN  IF dest.kind # "False"
             THEN [cls |-> classes[i], verdict |-> dest]
             ELSE GetFileClassFrom(classes, filename, i + 1)

GetFileClass(classes, filename) == GetFileClassFrom(classes, filename, 1)

\* ACT_AS_FILE = re.compile(r'\.F$')
ActAsFile(filename) == ReSearchEnd(filename, DOT_F) # 0


(***************************************************************************)
(* Paths.  osp.join of components is concatenation; osp.normpath drops "." *)
(* and empty components and cancels ".." against the component before it.  *)
(***************************************************************************)
ROOT == <<>>

Front(p) == IF p = <<>> THEN <<>> ELSE SubSeq(p, 1, Len(p) - 1)

Last(p) == p[Len(p)]

\* osp.normpath of an absolute path (".." at the root stays at the root)
RECURSIVE NormAbsFrom(_, _)
NormAbsFrom(acc, rest) ==
    IF rest = <<>> THEN acc
    ELSE LET c == Head(rest)
         IN  IF c = DOT \/ c = EMPTYNAME THEN NormAbsFrom(acc, Tail(rest))
             ELSE IF c = DOTDOT THEN NormAbsFrom(Front(acc), Tail(rest))
             ELSE NormAbsFrom(Append(acc, c), Tail(rest))

NormPath(p) == NormAbsFrom(<<>>, p)

\* osp.normpath of a relative path: leading ".." components are kept
RECURSIVE NormRelFrom(_, _)
NormRelFrom(acc, rest) ==
    IF rest = <<>> THEN (IF acc = <<>> THEN <<DOT>> ELSE acc)
    ELSE LET c == Head(rest)
         IN  IF c = DOT \/ c = EMPTYNAME THEN NormRelFrom(acc, Tail(rest))
             ELSE IF c = DOTDOT /\ acc # <<>> /\ Last(acc) # DOTDOT
                  THEN NormRelFrom(Front(acc), Tail(rest))
             ELSE NormRelFrom(Append(acc, c), Tail(rest))

NormRelPath(p) == NormRelFrom(<<>>, p)

RECURSIVE CommonLen(_, _)
CommonLen(p, q) ==
    IF p = <<>> \/ q = <<>> \/ Head(p) # Head(q) THEN 0
    ELSE 1 + CommonLen(Tail(p), Tail(q))

RECURSIVE Ups(_)
Ups(n) == IF n = 0 THEN <<>> ELSE <<DOTDOT>> \o Ups(n - 1)

\* osp.relpath(path, start) of two absolute paths: one ".." for every
\* component of start below the common prefix, then the rest of path.
RelPath(path, start) ==
    LET p == NormPath(path)
        s == NormPath(start)
        i == CommonLen(p, s)
        rel == Ups(Len(s) - i) \o SubSeq(p, i + 1, Len(p))
    IN  IF rel = <<>> THEN <<DOT>> ELSE rel

(***************************************************************************)
(* The file system: a function from the real paths that exist to nodes.    *)
(* A node is a directory, a regular file with its text, or a symbolic link *)
(* with its literal target (absolute or relative to the link's directory). *)
(***************************************************************************)
DirNode == [kind |-> "dir", text |-> <<>>, target |-> <<>>, abs |-> FALSE]
FileNode(t) == [kind |-> "file", text |-> t, target |-> <<>>, abs |-> FALSE]
LinkNode(t, a) == [kind |-> "link", text |-> <<>>, target |-> t, abs |-> a]

KindAt(f, p) ==
    IF p = ROOT THEN "dir"
    ELSE IF p \in DOMAIN f THEN f[p].kind
    ELSE "none"

\* The kernel's path walk.  cur is the real path reached so far, rest the
\* components still to resolve.  The result is "ok" with the real path of
\* the object, "noent" with the real path the last component would have
\* (its directory exists), or "err" (a missing or non-directory
\* intermediate component, or too many links).
RECURSIVE PathWalk(_, _, _, _, _)
PathWalk(f, cur, rest, followLast, hops) ==
    IF rest = <<>> THEN [st |-> "ok", path |-> cur]
    ELSE IF KindAt(f, cur) # "dir" THEN [st |-> "err", path |-> cur]
    ELSE LET c == Head(rest)
             r == Tail(rest)
             nxt == Append(cur, c)
         IN  IF c = DOT \/ c = EMPTYNAME THEN PathWalk(f, cur, r, followLast, hops)
             ELSE IF c = DOTDOT THEN PathWalk(f, Front(cur), r, followLast, hops)
             ELSE IF KindAt(f, nxt) = "none"
                  THEN [st |-> IF r = <<>> THEN "noent" ELSE "err", path |-> nxt]
             ELSE IF KindAt(f, nxt) = "link" /\ (r # <<>> \/ followLast)
                  THEN IF hops = 0 THEN [st |-> "err", path |-> nxt]
                       ELSE PathWalk(f, IF f[nxt].abs THEN ROOT ELSE cur,
                                     f[nxt].target \o r, followLast, hops - 1)
             ELSE PathWalk(f, nxt, r, followLast, hops)

LStat(f, p) == PathWalk(f, ROOT, p, FALSE, MaxLinkHops)

Stat(f, p) == PathWalk(f, ROOT, p, TRUE, MaxLinkHops)

lexists(f, p) == LStat(f, p).st = "ok"

exists(f, p) == Stat(f, p).st = "ok"

islink(f, p) == lexists(f, p) /\ KindAt(f, LStat(f, p).path) = "link"

isdir(f, p) == exists(f, p) /\ KindAt(f, Stat(f, p).path) = "dir"

isfile(f, p) == exists(f, p) /\ KindAt(f, Stat(f, p).path) = "file"

\* osp.samefile of two paths that both stat: the same real object
samefile(f, p, q) == Stat(f, p).path = Stat(f, q).path

\* open(p).read() of a path that is a regular file
ReadFile(f, p) == f[Stat(f, p).path].text

Extend(f, p, node) == [q \in DOMAIN f \cup {p} |-> IF q = p THEN node ELSE f[q]]

Remove(f, p) == [q \in DOMAIN f \ {p} |-> f[q]]

\* os.unlink(p); the callers have found lexists(p)
Unlink(f, p) == Remove(f, LStat(f, p).path)

\* os.mkdir(p)
Mkdir(f, p) ==
    LET s == LStat(f, p)
    IN  IF s.st = "noent" THEN [fs |-> Extend(f, s.path, DirNode), err |-> ""]
        ELSE [fs |-> f, err |-> "OSError"]

\* os.makedirs(p): the missing ancestors first (an ancestor that exists
\* already is not an error), then p itself
RECURSIVE Makedirs(_, _)
Makedirs(f, p) ==
    LET head == Front(p)
        up == IF p # ROOT /\ head # ROOT /\ ~exists(f, head)
              THEN Makedirs(f, head)
              ELSE [fs |-> f, err |-> ""]
    IN  IF up.err # "" /\ lexists(up.fs, head) = FALSE THEN up
        ELSE Mkdir(up.fs, p)

\* os.symlink(target, p)
Symlink(f, target, p) ==
    LET s == LStat(f, p)
    IN  IF s.st = "noent"
        THEN [fs |-> Extend(f, s.path, LinkNode(target, FALSE)), err |-> ""]
        ELSE [fs |-> f, err |-> "OSError"]

(***************************************************************************)
(* Action instances.  source is the source filename (or, for a Text        *)
(* action, the text handed over by the script), srcNone tells that source  *)
(* is None, text/textSet model the attribute self.text, proxy the          *)
(* attribute ProgrammableAction.proxy: cls "unset" before it is assigned,  *)
(* "None" for the proxy None.                                              *)
(***************************************************************************)
\* ConfigSource.source and ConfigSource.dest of the instance under study
Source == << <<"h">>, <<"s">> >>
Dest == << <<"d">> >>

\* SymlinkAction.FORCE_SAME
FORCE_SAME == TRUE

Proxy(c, src, none) ==
    [cls |-> c, source |-> src, srcNone |-> none, text |-> <<>>, textSet |-> FALSE]

ProxyUnset == Proxy("unset", <<>>, TRUE)

ProxyNone == Proxy("None", <<>>, TRUE)

\* Action.__init__
NewAction(c, rel, src, dst) ==
    [cls |-> c, relpath |-> rel, source |-> src, srcNone |-> FALSE,
     dest |-> dst, text |-> <<>>, textSet |-> FALSE, proxy |-> ProxyUnset]

\* the proxy as an action of its own: the parent's relpath and dest
ProxyAction(a) ==
    [cls |-> a.proxy.cls, relpath |-> a.relpath, source |-> a.proxy.source,
     srcNone |-> a.proxy.srcNone, dest |-> a.dest, text |-> a.proxy.text,
     textSet |-> a.proxy.textSet, proxy |-> ProxyUnset]

\* the parent after its proxy has become q
WithProxy(a, q) ==
    [a EXCEPT !.proxy = [cls |-> q.cls, source |-> q.source, srcNone |-> q.srcNone,
                         text |-> q.text, textSet |-> q.textSet]]

\* Action.dest_path
dest_path(a) == NormPath(Dest \o a.relpath \o <<a.dest>>)

\* Action.source_path
source_path(a) == NormPath(Source \o a.relpath \o <<a.source>>)

\* ONCE as it would be if EmptyAction derived from CopyAction
ONCEOfCopyOnceOnly(cls) == cls = "CopyOnce"

\* TextAction.ONCE and its overrides
ONCE(cls) == cls \in {"CopyOnce", "Empty"}

\* what a check or a sync leaves: the file system, the action, the
\* exception raised ("" for none) and the lines printed; and, counted for
\* the properties, how many times it executed a script (runs) and assigned
\* self.proxy (sets)
Done(f, a, msgs) ==
    [fs |-> f, a |-> a, err |-> "", msgs |-> msgs, runs |-> 0, sets |-> 0]

Raise(f, a, e, msgs) ==
    [fs |-> f, a |-> a, err |-> e, msgs |-> msgs, runs |-> 0, sets |-> 0]

\* r reached through one exec of the script and n assignments of self.proxy
Executed(r, n) == [r EXCEPT !.runs = r.runs + 1, !.sets = r.sets + n]

\* Action._makedirs
makedirs_(f, a) ==
    LET dir == Front(dest_path(a))
    IN  IF ~isdir(f, dir) THEN Makedirs(f, dir) ELSE [fs |-> f, err |-> ""]

\* SymlinkAction.same_contents: "raise" when either open() fails
same_contents(f, a) ==
    IF ~isfile(f, source_path(a)) \/ ~isfile(f, dest_path(a)) THEN "raise"
    ELSE IF ReadFile(f, source_path(a)) = ReadFile(f, dest_path(a)) THEN "true"
    ELSE "false"

\* SymlinkAction.check as it would be if it dropped a broken link itself
\* instead of leaving that to sync
SymlinkCheckUnlinking(f, a) ==
    LET source == source_path(a)
        dest == dest_path(a)
    IN  IF ~exists(f, source) THEN Raise(f, a, "Source does not exists", <<>>)
        ELSE IF islink(f, dest) /\ ~exists(f, dest) THEN Done(Unlink(f, dest), a, <<>>)
        ELSE IF lexists(f, dest) /\ ~islink(f, dest)
                  /\ ~(FORCE_SAME /\ same_contents(f, a) = "true")
             THEN Raise(f, a, "Destination exists and is not a link", <<>>)
        ELSE Done(f, a, <<>>)

\* SymlinkAction.check
SymlinkCheck(f, a) ==
    LET source == source_path(a)
        dest == dest_path(a)
    IN  IF ~exists(f, source) THEN Raise(f, a, "Source does not exists", <<>>)
        ELSE IF lexists(f, dest) /\ ~islink(f, dest)
             THEN IF FORCE_SAME /\ same_contents(f, a) = "raise"
                  THEN Raise(f, a, "IOError", <<>>)
                  ELSE IF ~(FORCE_SAME /\ same_contents(f, a) = "true")
                       THEN Raise(f, a, "Destination exists and is not a link", <<>>)
                       ELSE Done(f, a, <<>>)
        ELSE Done(f, a, <<>>)

\* the end of SymlinkAction.sync: relsource, os.symlink and the report
SymlinkCreate(f, a, msgs) ==
    LET relsource == NormRelPath(RelPath(source_path(a), Dest \o a.relpath))
        made == Symlink(f, relsource, dest_path(a))
    IN  IF made.err # "" THEN Raise(f, a, made.err, msgs)
        ELSE Done(made.fs, a, Append(msgs, "Created new link"))

\* SymlinkAction.sync
SymlinkSync(f, a) ==
    LET source == source_path(a)
        dest == dest_path(a)
    IN  IF lexists(f, dest)
        THEN IF islink(f, dest)
             THEN IF ~exists(f, dest)
                  THEN SymlinkCreate(Unlink(f, dest), a, <<"Link target altered">>)
                  ELSE IF ~exists(f, source) THEN Raise(f, a, "OSError", <<>>)
                  ELSE IF ~samefile(f, dest, source)
                       THEN SymlinkCreate(Unlink(f, dest), a, <<"Link target altered">>)
                       ELSE Done(f, a, <<>>)
             ELSE IF FORCE_SAME /\ same_contents(f, a) = "raise"
                  THEN Raise(f, a, "IOError", <<>>)
                  ELSE IF FORCE_SAME /\ same_contents(f, a) = "true"
                       THEN SymlinkCreate(Unlink(f, dest), a,
                                <<"Link target was a file with same contents">>)
                       ELSE SymlinkCreate(f, a, <<>>)
        ELSE LET made == makedirs_(f, a)
             IN  IF made.err # "" THEN Raise(made.fs, a, made.err, <<>>)
                 ELSE SymlinkCreate(made.fs, a, <<>>)

\* TextAction.check
TextCheck(f, a) ==
    IF ~a.srcNone
    THEN Done(f, [a EXCEPT !.text = a.source, !.textSet = TRUE,
                           !.source = <<>>, !.srcNone = TRUE], <<>>)
    ELSE Done(f, a, <<>>)

\* CopyAction.check (inherited by CopyOnceAction)
CopyCheck(f, a) ==
    IF ~isfile(f, source_path(a)) THEN Raise(f, a, "IOError", <<>>)
    ELSE Done(f, [a EXCEPT !.text = ReadFile(f, source_path(a)), !.textSet = TRUE], <<>>)

\* EmptyAction.check
EmptyCheck(f, a) == Done(f, [a EXCEPT !.text = <<>>, !.textSet = TRUE], <<>>)

\* the with-block of TextAction.sync: open(dest, 'a+') creates a missing
\* file, then the text is compared and rewritten
TextWrite(f, a, exists_) ==
    LET dest == dest_path(a)
        s == Stat(f, dest)
        opened == IF s.st = "noent" THEN Extend(f, s.path, FileNode(<<>>)) ELSE f
    IN  IF s.st = "err" \/ (s.st = "ok" /\ KindAt(f, s.path) # "file")
        THEN Raise(f, a, "IOError", <<>>)
        ELSE IF ~a.textSet THEN Raise(opened, a, "AttributeError", <<>>)
        ELSE IF opened[s.path].text # a.text
             THEN IF exists_ /\ ONCE(a.cls)
                  THEN Done(opened, a, <<"File already exists, not updated">>)
                  ELSE Done([opened EXCEPT ![s.path] = FileNode(a.text)], a,
                            <<"Updated file contents">>)
             ELSE Done(opened, a, <<>>)

\* TextAction.sync as it would be without the test for a link: the text is
\* written through the link
TextSyncThroughLink(f, a) ==
    LET made == makedirs_(f, a)
    IN  IF made.err # "" THEN Raise(made.fs, a, made.err, <<>>)
        ELSE TextWrite(made.fs, a, exists(f, dest_path(a)))

\* TextAction.sync (inherited by the copy and empty actions)
TextSync(f, a) ==
    LET dest == dest_path(a)
        exists_ == exists(f, dest)
    IN  IF islink(f, dest) THEN Raise(f, a, "Destination is a link", <<>>)
        ELSE LET made == makedirs_(f, a)
             IN  IF made.err # "" THEN Raise(made.fs, a, made.err, <<>>)
                 ELSE TextWrite(made.fs, a, exists_)

(***************************************************************************)
(* Programmable actions.  A script is the text of the .p.py file: its      *)
(* first token is the operation it calls, the rest the argument.  Running  *)
(* it in the environment of get_env ends with a Forwarder raised, with a   *)
(* normal return ("Return"), or with another exception ("Raise").          *)
(***************************************************************************)
\* get_env as it would be if redirect() passed the filename on unchanged
RunScriptVerbatim(text) ==
    IF text = <<>> THEN [sig |-> "Return", arg |-> <<>>]
    ELSE CASE Head(text) = "redirect" -> [sig |-> "SymlinkForwarder", arg |-> Tail(text)]
           [] Head(text) = "empty" -> [sig |-> "EmptyForwarder", arg |-> <<>>]
           [] Head(text) = "ignore" -> [sig |-> "IgnoreForwarder", arg |-> <<>>]
           [] Head(text) = "text" -> [sig |-> "TextForwarder", arg |-> Tail(text)]
           [] Head(text) = "pass" -> [sig |-> "Return", arg |-> <<>>]
           [] OTHER -> [sig |-> "Raise", arg |-> <<>>]

\* ProgrammableAction.get_env and the exec of the script
RunScript(text) ==
    IF text = <<>> THEN [sig |-> "Return", arg |-> <<>>]
    ELSE CASE Head(text) = "redirect" ->
                  [sig |-> "SymlinkForwarder", arg |-> <<UNDERSCORE>> \o Tail(text)]
           [] Head(text) = "empty" -> [sig |-> "EmptyForwarder", arg |-> <<>>]
           [] Head(text) = "ignore" -> [sig |-> "IgnoreForwarder", arg |-> <<>>]
           [] Head(text) = "text" -> [sig |-> "TextForwarder", arg |-> Tail(text)]
           [] Head(text) = "pass" -> [sig |-> "Return", arg |-> <<>>]
           [] OTHER -> [sig |-> "Raise", arg |-> <<>>]

\* get_proxy as it would be if EmptyForwarder built a Text action with the
\* empty text instead of an Empty action
get_proxyEmptyAsText(e) ==
    CASE e.sig = "SymlinkForwarder" -> Proxy("Symlink", e.arg, FALSE)
      [] e.sig = "EmptyForwarder" -> Proxy("Text", <<>>, FALSE)
      [] e.sig = "TextForwarder" -> Proxy("Text", e.arg, FALSE)
      [] e.sig = "IgnoreForwarder" -> ProxyNone

\* Forwarder.get_proxy of the four forwarders
get_proxy(e) ==
    CASE e.sig = "SymlinkForwarder" -> Proxy("Symlink", e.arg, FALSE)
      [] e.sig = "EmptyForwarder" -> Proxy("Empty", <<>>, TRUE)
      [] e.sig = "TextForwarder" -> Proxy("Text", e.arg, FALSE)
      [] e.sig = "IgnoreForwarder" -> ProxyNone

\* check() of the classes a proxy can have
ProxyCheck(f, q) ==
    CASE q.cls = "Symlink" -> SymlinkCheck(f, q)
      [] q.cls = "Empty" -> EmptyCheck(f, q)
      [] q.cls = "Text" -> TextCheck(f, q)

\* sync() of the classes a proxy can have
ProxySync(f, q) ==
    CASE q.cls = "Symlink" -> SymlinkSync(f, q)
      [] q.cls = "Empty" -> TextSync(f, q)
      [] q.cls = "Text" -> TextSync(f, q)

\* ProgrammableAction.check as it would be if a script that returns were
\* taken as one that asks to be ignored
ProgrammableCheckReturnIgnored(f, a) ==
    IF ~isfile(f, source_path(a)) THEN Raise(f, a, "IOError", <<>>)
    ELSE LET e == RunScript(ReadFile(f, source_path(a)))
         IN  IF e.sig = "Raise" THEN Executed(Raise(f, a, "ScriptError", <<>>), 0)
             ELSE IF e.sig = "Return"
                  THEN Executed(Done(f, [a EXCEPT !.proxy = ProxyNone], <<>>), 1)
             ELSE LET b == [a EXCEPT !.proxy = get_proxy(e)]
                  IN  IF b.proxy.cls # "None"
                      THEN LET r == ProxyCheck(f, ProxyAction(b))
                           IN  Executed([r EXCEPT !.a = WithProxy(b, r.a)], 1)
                      ELSE Executed(Done(f, b, <<>>), 1)

\* ProgrammableAction.check
ProgrammableCheck(f, a) ==
    IF ~isfile(f, source_path(a)) THEN Raise(f, a, "IOError", <<>>)
    ELSE LET e == RunScript(ReadFile(f, source_path(a)))
         IN  IF e.sig = "Raise" THEN Executed(Raise(f, a, "ScriptError", <<>>), 0)
             ELSE IF e.sig = "Return"
                  THEN Executed(Raise(f, a, "Unknown result", <<>>), 0)
             ELSE LET b == [a EXCEPT !.proxy = get_proxy(e)]
                  IN  IF b.proxy.cls # "None"
                      THEN LET r == ProxyCheck(f, ProxyAction(b))
                           IN  Executed([r EXCEPT !.a = WithProxy(b, r.a)], 1)
                      ELSE Executed(Done(f, b, <<>>), 1)

\* ProgrammableAction.sync as it would be if it resolved the script again
\* instead of using the proxy check() stored
ProgrammableSyncResolving(f, a) ==
    IF ~isfile(f, source_path(a)) THEN Raise(f, a, "IOError", <<>>)
    ELSE LET e == RunScript(ReadFile(f, source_path(a)))
         IN  IF e.sig \in {"Raise", "Return"}
             THEN Executed(Raise(f, a, "ScriptError", <<>>), 0)
             ELSE LET b == [a EXCEPT !.proxy = get_proxy(e)]
                  IN  IF b.proxy.cls # "None"
                      THEN LET c == ProxyCheck(f, ProxyAction(b))
                               r == ProxySync(f, c.a)
                           IN  Executed([r EXCEPT !.a = WithProxy(b, r.a)], 1)
                      ELSE Executed(Done(f, b, <<>>), 1)

\* ProgrammableAction.sync
ProgrammableSync(f, a) ==
    IF a.proxy.cls = "unset" THEN Raise(f, a, "AttributeError", <<>>)
    ELSE IF a.proxy.cls # "None"
         THEN LET r == ProxySync(f, ProxyAction(a))
              IN  [r EXCEPT !.a = WithProxy(a, r.a)]
         ELSE Done(f, a, <<>>)

\* f.check() of execute: the method of the action's class
ActionCheck(f, a) ==
    CASE a.cls = "Symlink" -> SymlinkCheck(f, a)
      [] a.cls = "Copy" -> CopyCheck(f, a)
      [] a.cls = "CopyOnce" -> CopyCheck(f, a)
      [] a.cls = "Empty" -> EmptyCheck(f, a)
      [] a.cls = "Programmable" -> ProgrammableCheck(f, a)
      [] a.cls = "Ignore" -> Raise(f, a, "NotImplementedError", <<>>)

\* f.sync() of execute
ActionSync(f, a) ==
    CASE a.cls = "Symlink" -> SymlinkSync(f, a)
      [] a.cls = "Copy" -> TextSync(f, a)
      [] a.cls = "CopyOnce" -> TextSync(f, a)
      [] a.cls = "Empty" -> TextSync(f, a)
      [] a.cls = "Programmable" -> ProgrammableSync(f, a)
      [] a.cls = "Ignore" -> Raise(f, a, "NotImplementedError", <<>>)

(***************************************************************************)
(* ConfigSource.analyze: the walk of the source tree and the tree of       *)
(* actions.  self.tree, a dict of dicts, is the sequence of its actions in *)
(* iteration order: the directories in the order of their first insertion, *)
(* the actions of one directory in insertion order.                        *)
(***************************************************************************)
Children(f, p) == {q \in DOMAIN f : Len(q) = Len(p) + 1 /\ Front(q) = p}

RECURSIVE SetToSeq(_)
SetToSeq(S) ==
    IF S = {} THEN <<>>
    ELSE LET x == CHOOSE y \in S : TRUE IN <<x>> \o SetToSeq(S \ {x})

\* os.scandir(p) inside os.walk: the entries of p in the order the file
\* system lists them (order), entries it does not rank last
Listing(f, order, p) ==
    LET kids == Children(f, p)
        ranked == SelectSeq(order, LAMBDA q : q \in kids)
    IN  ranked \o SetToSeq(kids \ {order[i] : i \in DOMAIN order})

\* the position at which files[dest] = action lands in the iteration order
InsertInDir(tree, action) ==
    LET same == {i \in DOMAIN tree : tree[i].relpath = action.relpath}
    IN  IF same = {} THEN Append(tree, action)
        ELSE LET k == CHOOSE i \in same : \A j \in same : j <= i
             IN  SubSeq(tree, 1, k) \o <<action>> \o SubSeq(tree, k + 1, Len(tree))

\* ConfigSource._add as it would be without the test for a conflict: the
\* later entry replaces the earlier one
add_Overwriting(tree, relpath, filename, cls, dest) ==
    IF \E i \in DOMAIN tree : tree[i].relpath = relpath /\ tree[i].dest = dest
    THEN [tree |-> [i \in DOMAIN tree |->
                       IF tree[i].relpath = relpath /\ tree[i].dest = dest
                       THEN NewAction(cls, relpath, filename, dest)
                       ELSE tree[i]],
          err |-> ""]
    ELSE [tree |-> InsertInDir(tree, NewAction(cls, relpath, filename, dest)),
          err |-> ""]

\* ConfigSource._add
add_(tree, relpath, filename, cls, dest) ==
    IF \E i \in DOMAIN tree : tree[i].relpath = relpath /\ tree[i].dest = dest
    THEN [tree |-> tree, err |-> "Conflict"]
    ELSE [tree |-> InsertInDir(tree, NewAction(cls, relpath, filename, dest)),
          err |-> ""]

\* ConfigSource.add
add(tree, classes, relpath, filename) ==
    LET c == GetFileClass(classes, filename)
    IN  IF c.cls = "" THEN [tree |-> tree, err |-> "No class found"]
        ELSE IF c.verdict.kind # "None"
             THEN add_(tree, relpath, filename, c.cls, c.verdict.dest)
             ELSE [tree |-> tree, err |-> ""]

\* ConfigSource.add_dir
add_dir(tree, classes, relpath, filename) ==
    LET c == GetFileClass(classes, filename)
    IN  IF c.cls = "" THEN [tree |-> tree, err |-> "No class found"]
        ELSE IF c.verdict.kind # "None"
             THEN add_(tree, relpath, filename, c.cls, ReSubEnd(c.verdict.dest, DOT_F))
             ELSE [tree |-> tree, err |-> ""]

\* the two loops of analyze over the entries of one directory; an
\* exception ends the walk
RECURSIVE AddAll(_, _, _, _, _)
AddAll(st, classes, relpath, entries, asDir) ==
    IF entries = <<>> \/ st.err # "" THEN st
    ELSE AddAll(IF asDir THEN add_dir(st.tree, classes, relpath, Last(Head(entries)))
                ELSE add(st.tree, classes, relpath, Last(Head(entries))),
                classes, relpath, Tail(entries), asDir)

\* os.walk(self.source, topdown=True) with the body of the loop of analyze:
\* the treat-as-file directories are added and taken out of dirs, the
\* files are added, then the walk goes down the directories left in dirs
\* that are not symbolic links
RECURSIVE WalkDir(_, _, _, _, _)
RECURSIVE WalkDirs(_, _, _, _, _)
\* the loop of analyze as it would be if the treat-as-file directories were
\* left in dirs: they are added, and walked as well
WalkDirDescending(f, order, classes, path, st) ==
    IF st.err # "" THEN st
    ELSE LET listing == Listing(f, order, path)
             dirs == SelectSeq(listing, LAMBDA q : isdir(f, q))
             files == SelectSeq(listing, LAMBDA q : ~isdir(f, q))
             relpath == RelPath(path, Source)
             asFile == SelectSeq(dirs, LAMBDA q : ActAsFile(Last(q)))
             down == SelectSeq(dirs, LAMBDA q : KindAt(f, q) # "link")
             st1 == AddAll(st, classes, relpath, asFile, TRUE)
             st2 == AddAll(st1, classes, relpath, files, FALSE)
         IN  WalkDirs(f, order, classes, down, st2)

WalkDir(f, order, classes, path, st) ==
    IF st.err # "" THEN st
    ELSE LET listing == Listing(f, order, path)
             dirs == SelectSeq(listing, LAMBDA q : isdir(f, q))
             files == SelectSeq(listing, LAMBDA q : ~isdir(f, q))
             relpath == RelPath(path, Source)
             asFile == SelectSeq(dirs, LAMBDA q : ActAsFile(Last(q)))
             down == SelectSeq(dirs, LAMBDA q : ~ActAsFile(Last(q)) /\ KindAt(f, q) # "link")
             st1 == AddAll(st, classes, relpath, asFile, TRUE)
             st2 == AddAll(st1, classes, relpath, files, FALSE)
         IN  WalkDirs(f, order, classes, down, st2)

WalkDirs(f, order, classes, dirs, st) ==
    IF dirs = <<>> \/ st.err # "" THEN st
    ELSE WalkDirs(f, order, classes, Tail(dirs),
                  WalkDir(f, order, classes, Head(dirs), st))

\* ConfigSource.analyze: the tree it leaves and the exception it raised
analyze(f, order, classes) ==
    IF KindAt(f, Source) # "dir" THEN [tree |-> <<>>, err |-> ""]
    ELSE WalkDir(f, order, classes, Source, [tree |-> <<>>, err |-> ""])

(***************************************************************************)
(* The state: the file system, the order in which it lists directory       *)
(* entries, and one ConfigSource with the call in progress on it.          *)
(***************************************************************************)
VARIABLES
    fs,        \* the file system
    lsorder,   \* the listing order of the source entries (os.scandir)
    classes,   \* ConfigSource.classes
    tree,      \* ConfigSource.tree in iteration order
    treeSet,   \* whether the attribute tree exists
    pc,        \* "idle", or the pass of execute in progress: "check", "sync"
    idx,       \* the position of execute's loop in the tree
    call,      \* the public method called last: "sync", "analyze", "execute"
    ncalls,    \* the number of public calls made
    err,       \* the exception that ended the last call ("" for none)
    prev,      \* the call before the last one and the exception that ended it
    log,       \* the lines printed by the last call
    fsStart,   \* the file system when the last call began
    nChecked,  \* the number of f.check() invoked by the last call
    nApplied,  \* the number of f.sync() invoked by the last call
    step,      \* the last f.check() or f.sync(): position, exception, lines
    fsPre,     \* the file system before that step
    nExec,     \* the number of script executions in the last call
    nSet       \* the number of assignments of a proxy in the last call

vars == <<fs, lsorder, classes, tree, treeSet, pc, idx, call, ncalls, err, prev,
          log, fsStart, nChecked, nApplied, step, fsPre, nExec, nSet>>

NoStep == [op |-> "none", i |-> 0, err |-> "", msgs |-> <<>>, runs |-> 0, sets |-> 0]

(***************************************************************************)
(* The source trees and destination states the model starts from.          *)
(***************************************************************************)
X == <<"X">>
Y == <<"Y">>
T == <<"T">>
NameA == <<"a">>
NameB == <<"b">>
NameX == <<"x">>
NameF == <<"f">>
NameR == <<"r">>
NameHiddenR == <<UNDERSCORE, "r">>
NameScript == NameA \o DOT_PPY
Outside == << <<"h">>, <<"o">> >>

InSource(n) == Append(Source, n)
InDest(n) == Append(Dest, n)
Entry(p, node) == [path |-> p, node |-> node]
Absent == [kind |-> "none", text |-> <<>>, target |-> <<>>, abs |-> FALSE]

\* the entry that resolves to the destination name a, with the name of the
\* source file a link at a is to point at
Primaries ==
    { [entries |-> <<>>, src |-> NameA],
      [entries |-> <<Entry(InSource(NameA), FileNode(X))>>, src |-> NameA],
      [entries |-> <<Entry(InSource(NameA \o DOT_COPY), FileNode(X))>>, src |-> NameA],
      [entries |-> <<Entry(InSource(NameA \o DOT_COPY), FileNode(<<>>))>>, src |-> NameA],
      [entries |-> <<Entry(InSource(NameA \o DOT_COPYONCE), FileNode(X))>>, src |-> NameA],
      [entries |-> <<Entry(InSource(NameA \o DOT_EMPTY), FileNode(X))>>, src |-> NameA],
      [entries |-> <<Entry(InSource(NameScript), FileNode(<<"redirect">> \o NameR)),
                     Entry(InSource(NameHiddenR), FileNode(X))>>, src |-> NameHiddenR],
      [entries |-> <<Entry(InSource(NameScript), FileNode(<<"redirect">> \o NameR))>>,
       src |-> NameHiddenR],
      [entries |-> <<Entry(InSource(NameScript), FileNode(<<"redirect">> \o NameHiddenR)),
                     Entry(InSource(NameHiddenR), FileNode(X))>>, src |-> NameHiddenR],
      [entries |-> <<Entry(InSource(NameScript), FileNode(<<"empty">>))>>, src |-> NameA],
      [entries |-> <<Entry(InSource(NameScript), FileNode(<<"ignore">>))>>, src |-> NameA],
      [entries |-> <<Entry(InSource(NameScript), FileNode(<<"text">> \o T))>>, src |-> NameA],
      [entries |-> <<Entry(InSource(NameScript), FileNode(<<"pass">>))>>, src |-> NameA],
      [entries |-> <<Entry(InSource(NameScript), FileNode(X))>>, src |-> NameA] }

\* the other entries of the source tree; usesA and usesB tell whether one of
\* them resolves to the destination name a or b
Secondaries ==
    { [entries |-> <<>>, usesA |-> FALSE, usesB |-> FALSE],
      [entries |-> <<Entry(InSource(NameB), FileNode(Y))>>,
       usesA |-> FALSE, usesB |-> TRUE],
      [entries |-> <<Entry(InSource(NameB \o DOT_COPY), FileNode(Y))>>,
       usesA |-> FALSE, usesB |-> TRUE],
      [entries |-> <<Entry(InSource(NameA \o DOT_F), DirNode)>>,
       usesA |-> TRUE, usesB |-> FALSE],
      [entries |-> <<Entry(InSource(NameA \o DOT_EMPTY), FileNode(<<>>))>>,
       usesA |-> TRUE, usesB |-> FALSE],
      [entries |-> <<Entry(InSource(NameX), DirNode),
                     Entry(Append(InSource(NameX), NameF), FileNode(X))>>,
       usesA |-> FALSE, usesB |-> FALSE],
      [entries |-> <<Entry(InSource(NameX \o DOT_F), DirNode),
                     Entry(InSource(NameX), DirNode),
                     Entry(Append(InSource(NameX), NameF), FileNode(X))>>,
       usesA |-> FALSE, usesB |-> FALSE],
      [entries |-> <<Entry(InSource(NameX \o DOT_F), DirNode),
                     Entry(Append(InSource(NameX \o DOT_F), NameF), FileNode(X))>>,
       usesA |-> FALSE, usesB |-> FALSE],
      [entries |-> <<Entry(InSource(DOT_GIT), FileNode(X)),
                     Entry(InSource(DOT_GIT \o DOT_COPY), FileNode(X))>>,
       usesA |-> FALSE, usesB |-> FALSE] }

\* what the destination a can be before the first call
DestStatesA(src) ==
    { Absent, FileNode(X), FileNode(Y), FileNode(<<>>), DirNode,
      LinkNode(RelPath(InSource(src), Dest), FALSE),
      LinkNode(Outside, TRUE),
      LinkNode(<< <<"z">> >>, FALSE) }

\* what the destination b can be before the first call
DestStatesB == { Absent, LinkNode(<< <<"z">> >>, FALSE) }

Range(sq) == {sq[i] : i \in DOMAIN sq}

Paths(sq) == [i \in DOMAIN sq |-> sq[i].path]

\* the file system holding the entries E next to the two roots
MakeFs(E, withDest) ==
    LET base == { Entry(<< <<"h">> >>, DirNode), Entry(Source, DirNode),
                  Entry(Outside, FileNode(Y)) }
               \cup (IF withDest THEN {Entry(Dest, DirNode)} ELSE {})
        all == base \cup {e \in E : e.node.kind # "none"}
    IN  [p \in {e.path : e \in all} |-> (CHOOSE e \in all : e.path = p).node]

InitCall ==
    /\ tree = <<>>
    /\ treeSet = FALSE
    /\ pc = "idle"
    /\ idx = 0
    /\ call = "none"
    /\ ncalls = 0
    /\ err = ""
    /\ prev = [call |-> "none", err |-> ""]
    /\ log = <<>>
    /\ fsStart = fs
    /\ nChecked = 0
    /\ nApplied = 0
    /\ step = NoStep
    /\ fsPre = fs
    /\ nExec = 0
    /\ nSet = 0

Init ==
    /\ classes = DEFAULT_CLASSES
    /\ \E P \in Primaries, Q \in Secondaries :
       \E da \in DestStatesA(P.src), db \in DestStatesB,
          withDest \in BOOLEAN, first \in BOOLEAN :
          /\ P.entries = <<>> /\ ~Q.usesA => da = Absent
          /\ ~Q.usesB => db = Absent
          /\ ~withDest => da = Absent /\ db = Absent
          /\ Range(Paths(P.entries)) \cap Range(Paths(Q.entries)) = {}
          /\ fs = MakeFs(Range(P.entries) \cup Range(Q.entries)
                         \cup {Entry(InDest(NameA), da), Entry(InDest(NameB), db)},
                         withDest)
          /\ lsorder = IF first THEN Paths(P.entries) \o Paths(Q.entries)
                       ELSE Paths(Q.entries) \o Paths(P.entries)
    /\ InitCall

(***************************************************************************)
(* The start for the classification of one name: a source tree with a      *)
(* single entry, a file or a directory, whose name is put together from    *)
(* the markers, and a ConfigSource built with one of three registries.     *)
(***************************************************************************)
NameStems ==
    { <<>>, <<"a">>, <<UNDERSCORE>>, <<UNDERSCORE, "a">>, <<"a", UNDERSCORE>>,
      DOT_GIT, DOT_GITIGNORE }

NameSuffixes ==
    { <<>>, DOT_COPY, DOT_COPYONCE, DOT_EMPTY, DOT_PPY, DOT_F, DOT_GIT,
      <<NL>>, <<"x">> }

Names ==
    { s \o t \o u : s \in NameStems, t \in NameSuffixes, u \in NameSuffixes }
        \ { <<>>, DOT, DOTDOT }

CopyOnceFirst ==
    <<"Programmable", "Ignore", "Empty", "CopyOnce", "Copy", "Symlink">>

NoCatchAll == <<"Programmable", "Ignore", "Empty", "Copy", "CopyOnce">>

Registries == { DEFAULT_CLASSES, CopyOnceFirst, NoCatchAll }

InitNames ==
    /\ classes \in Registries
    /\ \E n \in Names, asDir \in BOOLEAN :
          /\ asDir => ActAsFile(n)
          /\ fs = MakeFs({Entry(InSource(n),
                                IF asDir THEN DirNode ELSE FileNode(<<"empty">>))}, TRUE)
          /\ lsorder = <<InSource(n)>>
    /\ InitCall

(***************************************************************************)
(* The public methods of ConfigSource and the steps of execute.            *)
(***************************************************************************)
StartCall(c) ==
    /\ pc = "idle"
    /\ ncalls < MaxCalls
    /\ call' = c
    /\ ncalls' = ncalls + 1
    /\ prev' = [call |-> call, err |-> err]
    /\ log' = <<>>
    /\ fsStart' = fs
    /\ nChecked' = 0
    /\ nApplied' = 0
    /\ step' = NoStep
    /\ fsPre' = fs
    /\ nExec' = 0
    /\ nSet' = 0
    /\ UNCHANGED <<fs, lsorder, classes>>

\* the start of execute's first loop over a tree; with no action in it
\* both loops end at once
BeginExecute(t) ==
    /\ pc' = IF t = <<>> THEN "idle" ELSE "check"
    /\ idx' = IF t = <<>> THEN 0 ELSE 1
    /\ err' = ""

\* ConfigSource.analyze called on its own
AnalyzeCall ==
    /\ StartCall("analyze")
    /\ LET r == analyze(fs, lsorder, classes)
       IN  /\ tree' = r.tree
           /\ err' = r.err
    /\ treeSet' = TRUE
    /\ pc' = "idle"
    /\ idx' = 0

\* ConfigSource.sync: analyze(), then execute() unless analyze raised
SyncCall ==
    /\ StartCall("sync")
    /\ LET r == analyze(fs, lsorder, classes)
       IN  /\ tree' = r.tree
           /\ IF r.err # ""
              THEN /\ err' = r.err
                   /\ pc' = "idle"
                   /\ idx' = 0
              ELSE BeginExecute(r.tree)
    /\ treeSet' = TRUE

\* ConfigSource.execute called on its own
ExecuteCall ==
    /\ StartCall("execute")
    /\ IF ~treeSet
       THEN /\ err' = "AttributeError"
            /\ pc' = "idle"
            /\ idx' = 0
       ELSE BeginExecute(tree)
    /\ UNCHANGED <<tree, treeSet>>

\* where execute goes after f.check() of the action at position i
AfterCheck(i, n, e) ==
    IF e # "" THEN [pc |-> "idle", idx |-> 0]
    ELSE IF i < n THEN [pc |-> "check", idx |-> i + 1]
    ELSE [pc |-> "sync", idx |-> 1]

\* where execute goes after f.sync() of the action at position i
AfterSync(i, n, e) ==
    IF e # "" THEN [pc |-> "idle", idx |-> 0]
    ELSE IF i < n THEN [pc |-> "sync", idx |-> i + 1]
    ELSE [pc |-> "idle", idx |-> 0]

\* what one iteration of either loop of execute leaves behind: r is what
\* the method called on the action at position idx returned or raised, nxt
\* where the loop goes from there
Iterate(op, r, nxt) ==
    /\ fs' = r.fs
    /\ tree' = [tree EXCEPT ![idx] = r.a]
    /\ err' = r.err
    /\ log' = log \o r.msgs
    /\ step' = [op |-> op, i |-> idx, err |-> r.err, msgs |-> r.msgs,
                runs |-> r.runs, sets |-> r.sets]
    /\ nExec' = nExec + r.runs
    /\ nSet' = nSet + r.sets
    /\ pc' = nxt.pc
    /\ idx' = nxt.idx
    /\ fsPre' = fs
    /\ UNCHANGED <<lsorder, classes, treeSet, call, ncalls, prev, fsStart>>

\* one iteration of "for f in self: f.check()"
CheckStep ==
    /\ pc = "check"
    /\ Iterate("check", ActionCheck(fs, tree[idx]),
               AfterCheck(idx, Len(tree), ActionCheck(fs, tree[idx]).err))
    /\ nChecked' = nChecked + 1
    /\ UNCHANGED nApplied

\* one iteration of "for f in self: f.sync()"
ApplyStep ==
    /\ pc = "sync"
    /\ Iterate("apply", ActionSync(fs, tree[idx]),
               AfterSync(idx, Len(tree), ActionSync(fs, tree[idx]).err))
    /\ nApplied' = nApplied + 1
    /\ UNCHANGED nChecked

Next ==
    \/ SyncCall
    \/ AnalyzeCall
    \/ ExecuteCall
    \/ CheckStep
    \/ ApplyStep

Spec == Init /\ [][Next]_vars

SpecNames == InitNames /\ [][Next]_vars

(***************************************************************************)
(* Vocabulary of the properties.                                           *)
(***************************************************************************)
\* the lines that report a change of the destination
MutationReports ==
    { "Link target altered", "Link target was a file with same contents",
      "Created new link", "Updated file contents" }

\* the ActionExceptions of the check and sync methods
ActionErrors ==
    { "Source does not exists", "Destination exists and is not a link",
      "Destination is a link", "Unknown result" }

\* the action the last step of execute worked on
StepAction == tree[step.i]

\* the class whose check and sync act for an action: the proxy's for a
\* programmable action
EffectiveCls(a) == IF a.cls = "Programmable" THEN a.proxy.cls ELSE a.cls

\* the last call walked the source tree as it was when the call began
Analyzed == call \in {"sync", "analyze"}

(***************************************************************************)
(* C1: when the check() of an action raises, whatever its position in the  *)
(* iteration order, execute ends there: no sync() of any action has been   *)
(* or will be invoked in that call and the file system is the one the call *)
(* started from.  The same holds all along the check pass.                 *)
(***************************************************************************)
C1_CheckFailureAppliesNothing ==
    /\ pc = "check" => nApplied = 0 /\ fs = fsStart
    /\ step.op = "check" /\ step.err # ""
          => pc = "idle" /\ nApplied = 0 /\ fs = fsStart

\* a check raised at the second position, after the check of another
\* action had passed
C1_Witness ==
    /\ step.op = "check"
    /\ step.err # ""
    /\ step.i = 2
    /\ nChecked = 2

(***************************************************************************)
(* C2: whenever a call ends with one of the ActionExceptions, no action's  *)
(* sync has created, rewritten or unlinked anything: the file system is    *)
(* the one the call started from.                                          *)
(***************************************************************************)
C2_ErrorBeforeAnyMutation ==
    pc = "idle" /\ err \in ActionErrors => fs = fsStart

(***************************************************************************)
(* C3: a sync() that follows a sync() that succeeded also succeeds, leaves *)
(* the file system as the first left it, and reports no change.            *)
(***************************************************************************)
C3_SecondSyncChangesNothing ==
    call = "sync" /\ prev = [call |-> "sync", err |-> ""]
        => /\ err = ""
           /\ fs = fsStart
           /\ \A i \in DOMAIN log : log[i] \notin MutationReports

(***************************************************************************)
(* C4: the source entries analyze classifies, stated without its loops:    *)
(* the files of the directories the walk visits and the treat-as-file      *)
(* directories in them, with the destination name each resolves to.  When  *)
(* two of them in one relative directory resolve to the same name, the     *)
(* call ends in analyze with the conflict error, no check or sync has run  *)
(* and the file system is untouched; when no two do, the tree holds        *)
(* exactly one action per classified entry and no two actions of one       *)
(* relative directory share a destination name.  Ignored entries are not   *)
(* among the classified ones and reserve nothing.                          *)
(***************************************************************************)
RECURSIVE WalkedFrom(_, _)
WalkedFrom(f, p) ==
    {p} \cup UNION { WalkedFrom(f, q) :
                       q \in {c \in Children(f, p) :
                                /\ isdir(f, c)
                                /\ ~ActAsFile(Last(c))
                                /\ KindAt(f, c) # "link"} }

SourceEntries(f) ==
    LET walked == IF KindAt(f, Source) = "dir" THEN WalkedFrom(f, Source) ELSE {}
        claimed == {c \in UNION {Children(f, p) : p \in walked} :
                      /\ isdir(f, c) => ActAsFile(Last(c))
                      /\ GetFileClass(classes, Last(c)).verdict.kind = "Str"}
    IN  { [relpath |-> RelPath(Front(c), Source),
           source |-> Last(c),
           dest |-> IF isdir(f, c)
                    THEN ReSubEnd(GetFileClass(classes, Last(c)).verdict.dest, DOT_F)
                    ELSE GetFileClass(classes, Last(c)).verdict.dest] : c \in claimed }

Conflicting(f) ==
    \E e1, e2 \in SourceEntries(f) :
        e1 # e2 /\ e1.relpath = e2.relpath /\ e1.dest = e2.dest

TreeEntries ==
    { [relpath |-> tree[i].relpath, source |-> tree[i].source, dest |-> tree[i].dest] :
        i \in DOMAIN tree }

C4_ConflictDetection ==
    Analyzed =>
        IF Conflicting(fsStart)
        THEN /\ err = "Conflict"
             /\ pc = "idle"
             /\ nChecked = 0
             /\ nApplied = 0
             /\ fs = fsStart
        ELSE /\ err # "Conflict"
             /\ TreeEntries = SourceEntries(fsStart)
             /\ \A i, j \in DOMAIN tree :
                    tree[i].relpath = tree[j].relpath /\ tree[i].dest = tree[j].dest
                        => i = j

\* a sync() ended by the conflict of a file with a treat-as-file directory
C4_Witness ==
    /\ call = "sync"
    /\ err = "Conflict"
    /\ \E e \in SourceEntries(fsStart) : ActAsFile(e.source)

(***************************************************************************)
(* C5: when sync() of a Symlink action has run on a destination that did   *)
(* not exist, the destination is a symbolic link with a relative target    *)
(* that, followed from the directory the link is in, reaches the source    *)
(* file, and the destination's directory exists.                           *)
(***************************************************************************)
C5_NewLinkReachesSource ==
    /\ step.op = "apply"
    /\ step.err = ""
    /\ StepAction.cls = "Symlink"
    /\ ~lexists(fsPre, dest_path(StepAction))
    => /\ islink(fs, dest_path(StepAction))
       /\ ~fs[LStat(fs, dest_path(StepAction)).path].abs
       /\ exists(fs, dest_path(StepAction))
       /\ samefile(fs, dest_path(StepAction), source_path(StepAction))
       /\ isdir(fs, Front(dest_path(StepAction)))

(***************************************************************************)
(* C6: for a Symlink action whose destination is a link that is broken or  *)
(* reaches another file than the source, check() passes, and sync() leaves *)
(* a link that reaches the source and reports "Link target altered"; when  *)
(* the link reaches the source already, sync() changes and reports nothing.*)
(***************************************************************************)
StaleLink(f, a) ==
    /\ islink(f, dest_path(a))
    /\ \/ ~exists(f, dest_path(a))
       \/ ~exists(f, source_path(a))
       \/ ~samefile(f, dest_path(a), source_path(a))

RightLink(f, a) ==
    /\ islink(f, dest_path(a))
    /\ exists(f, dest_path(a))
    /\ exists(f, source_path(a))
    /\ samefile(f, dest_path(a), source_path(a))

C6_StaleLinkRepaired ==
    /\ step.op = "check" /\ StepAction.cls = "Symlink" /\ StaleLink(fsPre, StepAction)
          => step.err = "" /\ fs = fsPre
    /\ step.op = "apply" /\ StepAction.cls = "Symlink" /\ StaleLink(fsPre, StepAction)
          => /\ step.err = ""
             /\ RightLink(fs, StepAction)
             /\ \E i \in DOMAIN step.msgs : step.msgs[i] = "Link target altered"
    /\ step.op = "apply" /\ StepAction.cls = "Symlink" /\ RightLink(fsPre, StepAction)
          => step.err = "" /\ fs = fsPre /\ step.msgs = <<>>

(***************************************************************************)
(* C7: sync() of a CopyOnce or Empty action (an Empty proxy included).     *)
(* As claimed: a destination that was a regular file before the call keeps *)
(* its content and the notice "File already exists, not updated" is        *)
(* reported.  As the code has it: the content is kept, and the notice is   *)
(* reported exactly when that content differs from the wanted text (the    *)
(* source's content, the empty text for Empty); a destination that does    *)
(* not exist is created with the wanted text.                              *)
(***************************************************************************)
OnceStep ==
    /\ step.op = "apply"
    /\ EffectiveCls(StepAction) \in {"CopyOnce", "Empty"}

WantedText(a) ==
    IF EffectiveCls(a) = "Empty" THEN <<>> ELSE ReadFile(fsStart, source_path(a))

IsRegular(f, p) == isfile(f, p) /\ ~islink(f, p)

Noticed == \E i \in DOMAIN step.msgs : step.msgs[i] = "File already exists, not updated"

C7_Claimed_NoticeAlways ==
    OnceStep /\ IsRegular(fsStart, dest_path(StepAction))
        => /\ ReadFile(fs, dest_path(StepAction)) = ReadFile(fsStart, dest_path(StepAction))
           /\ Noticed

C7_CopyOnceKeepsExisting ==
    /\ OnceStep /\ IsRegular(fsStart, dest_path(StepAction))
          => /\ step.err = ""
             /\ fs = fsPre
             /\ ReadFile(fs, dest_path(StepAction)) = ReadFile(fsStart, dest_path(StepAction))
             /\ Noticed <=> ReadFile(fsPre, dest_path(StepAction)) # WantedText(StepAction)
    /\ OnceStep /\ ~lexists(fsPre, dest_path(StepAction)) /\ step.err = ""
          => /\ IsRegular(fs, dest_path(StepAction))
             /\ ReadFile(fs, dest_path(StepAction)) = WantedText(StepAction)
             /\ ~Noticed

\* an existing destination with another content than the source's was kept
\* by a CopyOnce action, with the notice
C7_Witness ==
    /\ OnceStep
    /\ StepAction.cls = "CopyOnce"
    /\ IsRegular(fsPre, dest_path(StepAction))
    /\ ReadFile(fsPre, dest_path(StepAction)) = Y
    /\ ReadFile(fs, dest_path(StepAction)) = Y
    /\ WantedText(StepAction) = X
    /\ Noticed

(***************************************************************************)
(* C8: a programmable entry whose script calls redirect.  As claimed: the  *)
(* proxy's source is the file the script names, so redirect("_r") leads to *)
(* the sibling _r and sync() leaves a link to it.  As the code has it:     *)
(* redirect(n) leads to the sibling "_" + n; the proxy made by check() is  *)
(* a Symlink action with that source, the parent's relative directory and  *)
(* the parent's destination name (the entry's name without ".p.py"), and   *)
(* sync() on a destination that did not exist leaves a link whose literal  *)
(* target, taken from the destination's directory, names that sibling.     *)
(***************************************************************************)
ScriptOf(a) == ReadFile(fsStart, source_path(a))

RedirectStep(op) ==
    /\ step.op = op
    /\ StepAction.cls = "Programmable"
    /\ isfile(fsStart, source_path(StepAction))
    /\ ScriptOf(StepAction) # <<>>
    /\ Head(ScriptOf(StepAction)) = "redirect"

SiblingPath(a, n) == NormPath(Source \o a.relpath \o <<n>>)

LinkTargetFrom(f, p) == NormPath(Front(p) \o f[LStat(f, p).path].target)

C8_Claimed_RedirectVerbatim ==
    /\ RedirectStep("check") /\ Tail(ScriptOf(StepAction)) = NameHiddenR
          => /\ StepAction.proxy.cls = "Symlink"
             /\ StepAction.proxy.source = NameHiddenR
             /\ step.err = ""
    /\ RedirectStep("apply") /\ Tail(ScriptOf(StepAction)) = NameHiddenR
          => /\ islink(fs, dest_path(StepAction))
             /\ LinkTargetFrom(fs, dest_path(StepAction))
                    = SiblingPath(StepAction, NameHiddenR)

C8_RedirectPrefixesSibling ==
    /\ RedirectStep("check")
          => /\ StepAction.proxy.cls = "Symlink"
             /\ StepAction.proxy.source = <<UNDERSCORE>> \o Tail(ScriptOf(StepAction))
             /\ StepAction.dest = ReSubEnd(StepAction.source, DOT_PPY)
             /\ fs = fsPre
             /\ step.err = "Source does not exists"
                  <=> ~exists(fsPre, SiblingPath(StepAction,
                                    <<UNDERSCORE>> \o Tail(ScriptOf(StepAction))))
    /\ RedirectStep("apply") /\ step.err = "" /\ ~lexists(fsPre, dest_path(StepAction))
          => /\ islink(fs, dest_path(StepAction))
             /\ ~fs[LStat(fs, dest_path(StepAction)).path].abs
             /\ LinkTargetFrom(fs, dest_path(StepAction))
                    = SiblingPath(StepAction, <<UNDERSCORE>> \o Tail(ScriptOf(StepAction)))

\* redirect("r") of a.p.py has left the new link a to the sibling _r
C8_Witness ==
    /\ RedirectStep("apply")
    /\ step.err = ""
    /\ Tail(ScriptOf(StepAction)) = NameR
    /\ ~lexists(fsPre, dest_path(StepAction))
    /\ StepAction.dest = NameA
    /\ islink(fs, InDest(NameA))
    /\ samefile(fs, InDest(NameA), InSource(NameHiddenR))

(***************************************************************************)
(* C9 and C10 are about the classification of one name: under SpecNames    *)
(* the source tree holds the single entry lsorder[1].                      *)
(***************************************************************************)
TheEntry == lsorder[1]

TheName == Last(TheEntry)

(***************************************************************************)
(* C9: with the default registry, a source file whose name begins with     *)
(* "_", whatever follows, is ignored by analyze: the tree stays empty and  *)
(* nothing is checked or applied for it.                                   *)
(***************************************************************************)
C9_HiddenPrefixIgnored ==
    /\ classes = DEFAULT_CLASSES
    /\ Analyzed
    /\ StartsWith(TheName, <<UNDERSCORE>>)
    => /\ tree = <<>>
       /\ nChecked = 0
       /\ nApplied = 0
       /\ fs = fsStart

(***************************************************************************)
(* C10: analyze gives a name to the first class of the registry whose      *)
(* verdict is not False: with no such class the call ends with "No class   *)
(* found" and an empty tree, with the verdict None the entry is skipped,   *)
(* otherwise the tree holds one action of that class under that class's    *)
(* destination name.  With the default registry some class always answers, *)
(* Symlink answering last with the name unchanged, and the verdict is the  *)
(* same when CopyOnce stands before Copy.                                  *)
(***************************************************************************)
FirstMatch(cl, n) ==
    LET I == {i \in DOMAIN cl : Matches(cl[i], n).kind # "False"}
    IN  IF I = {} THEN 0 ELSE CHOOSE i \in I : \A j \in I : i <= j

Classified == ~isdir(fsStart, TheEntry) \/ ActAsFile(TheName)

C10_FirstMatchWins ==
    Analyzed /\ Classified =>
        LET k == FirstMatch(classes, TheName)
            v == Matches(classes[k], TheName)
        IN  /\ IF k = 0
               THEN /\ err = "No class found"
                    /\ tree = <<>>
                    /\ pc = "idle"
                    /\ nChecked = 0
               ELSE IF v.kind = "None"
               THEN tree = <<>> /\ err = ""
               ELSE /\ Len(tree) = 1
                    /\ tree[1].cls = classes[k]
                    /\ tree[1].source = TheName
                    /\ tree[1].dest = IF isdir(fsStart, TheEntry)
                                      THEN ReSubEnd(v.dest, DOT_F)
                                      ELSE v.dest
                    /\ err # "No class found"
            /\ classes = DEFAULT_CLASSES
                  => /\ k # 0
                     /\ k = Len(DEFAULT_CLASSES) => v = VStr(TheName)
            /\ classes = CopyOnceFirst /\ k # 0
                  => /\ FirstMatch(DEFAULT_CLASSES, TheName) # 0
                     /\ DEFAULT_CLASSES[FirstMatch(DEFAULT_CLASSES, TheName)] = classes[k]
                     /\ Matches(classes[k], TheName) = v
                     /\ GetFileClass(DEFAULT_CLASSES, TheName) = GetFileClass(classes, TheName)

\* a registry without the catch-all met a name no class claims
C10_Witness ==
    /\ classes = NoCatchAll
    /\ call = "sync"
    /\ err = "No class found"
    /\ tree = <<>>

(***************************************************************************)
(* C11: through analyze, execute and sync the passes come in order.  The   *)
(* apply pass starts only once check() has been invoked on every action of *)
(* the tree in the same call; no check() or sync() is invoked by an        *)
(* execute() that follows an analysis that raised; and a sync() whose      *)
(* analysis did not raise works on the tree of the source as it is when    *)
(* that sync() begins.                                                     *)
(***************************************************************************)
AnalysisErrors == {"Conflict", "No class found"}

FailedAnalysis == prev.call \in {"analyze", "sync"} /\ prev.err \in AnalysisErrors

C11_NoTransitionSkipped ==
    /\ pc = "sync" \/ nApplied > 0 => nChecked = Len(tree)
    /\ call = "execute" /\ FailedAnalysis => nChecked = 0 /\ nApplied = 0
    /\ call = "sync" /\ err \notin AnalysisErrors => TreeEntries = SourceEntries(fsStart)

(***************************************************************************)
(* C12: sync() of a Text, Copy, CopyOnce or Empty action (proxies          *)
(* included).  On a destination that is a symbolic link, broken or not, it *)
(* raises "Destination is a link" and changes nothing.  On a destination   *)
(* that is no link, sync() of a Text or Copy action that returns leaves a  *)
(* regular file holding the desired text (for Copy the source's content    *)
(* read by check()), reports "Updated file contents" exactly when the      *)
(* content found differed from it (a file that did not exist is found      *)
(* empty), and writes nothing when it did not differ; it returns whenever  *)
(* the destination is a regular file, or is missing from a directory that  *)
(* exists.                                                                 *)
(***************************************************************************)
TextStep ==
    /\ step.op = "apply"
    /\ EffectiveCls(StepAction) \in {"Text", "Copy", "CopyOnce", "Empty"}

DesiredText(a) ==
    CASE EffectiveCls(a) = "Empty" -> <<>>
      [] EffectiveCls(a) = "Text" -> Tail(ScriptOf(a))
      [] OTHER -> ReadFile(fsStart, source_path(a))

PriorText(f, p) == IF isfile(f, p) THEN ReadFile(f, p) ELSE <<>>

Reported(m) == \E i \in DOMAIN step.msgs : step.msgs[i] = m

C12_TextApply ==
    /\ TextStep /\ islink(fsPre, dest_path(StepAction))
          => step.err = "Destination is a link" /\ fs = fsPre /\ step.msgs = <<>>
    /\ TextStep /\ ~islink(fsPre, dest_path(StepAction))
          => step.err # "Destination is a link"
    /\ /\ TextStep
       /\ EffectiveCls(StepAction) \in {"Text", "Copy"}
       /\ ~islink(fsPre, dest_path(StepAction))
       => /\ \/ IsRegular(fsPre, dest_path(StepAction))
             \/ /\ ~lexists(fsPre, dest_path(StepAction))
                /\ isdir(fsPre, Front(dest_path(StepAction)))
             => step.err = ""
          /\ step.err = ""
             => /\ IsRegular(fs, dest_path(StepAction))
                /\ ReadFile(fs, dest_path(StepAction)) = DesiredText(StepAction)
                /\ Reported("Updated file contents")
                      <=> PriorText(fsPre, dest_path(StepAction)) # DesiredText(StepAction)
                /\ /\ IsRegular(fsPre, dest_path(StepAction))
                   /\ ReadFile(fsPre, dest_path(StepAction)) = DesiredText(StepAction)
                   => fs = fsPre /\ step.msgs = <<>>

\* a Copy action has rewritten a destination that held another text
C12_Witness ==
    /\ TextStep
    /\ StepAction.cls = "Copy"
    /\ IsRegular(fsPre, dest_path(StepAction))
    /\ ReadFile(fsPre, dest_path(StepAction)) = Y
    /\ ReadFile(fs, dest_path(StepAction)) = X
    /\ Reported("Updated file contents")

(***************************************************************************)
(* C13: check() of a Symlink action (a redirect proxy included) changes    *)
(* nothing.  It raises "Source does not exists" exactly when the source    *)
(* path does not exist; when it exists, it raises "Destination exists and  *)
(* is not a link" exactly when the destination exists, is no link, and is  *)
(* not, under FORCE_SAME, a file with the content of the source; in every  *)
(* other case it passes.  sync() on a destination that is a regular file   *)
(* with the content of the source replaces it by a link and reports "Link  *)
(* target was a file with same contents".                                  *)
(***************************************************************************)
EffectiveAction(a) == IF a.cls = "Programmable" THEN ProxyAction(a) ELSE a

SymlinkStep(op) ==
    /\ step.op = op
    /\ EffectiveCls(StepAction) = "Symlink"

SameContent(f, a) ==
    /\ isfile(f, source_path(a))
    /\ isfile(f, dest_path(a))
    /\ ReadFile(f, source_path(a)) = ReadFile(f, dest_path(a))

DestinationConflict(f, a) ==
    /\ lexists(f, dest_path(a))
    /\ ~islink(f, dest_path(a))
    /\ ~(FORCE_SAME /\ SameContent(f, a))

C13_SymlinkValidate ==
    /\ SymlinkStep("check") =>
          LET a == EffectiveAction(StepAction)
          IN  /\ fs = fsPre
              /\ step.err = "Source does not exists" <=> ~exists(fsPre, source_path(a))
              /\ exists(fsPre, source_path(a))
                    => /\ step.err = "Destination exists and is not a link"
                             <=> DestinationConflict(fsPre, a)
                       /\ ~DestinationConflict(fsPre, a) => step.err = ""
    /\ SymlinkStep("apply") =>
          LET a == EffectiveAction(StepAction)
          IN  IsRegular(fsPre, dest_path(a)) /\ SameContent(fsPre, a)
                 => /\ step.err = ""
                    /\ islink(fs, dest_path(a))
                    /\ Reported("Link target was a file with same contents")

(***************************************************************************)
(* C14: check() of a programmable action whose script raised a Forwarder   *)
(* leaves the proxy the signal stands for: a Symlink action for redirect,  *)
(* an Empty action for empty, a Text action with the text handed over for  *)
(* a rendered text, no proxy for ignore.  Its check() and its sync() raise *)
(* what, change what and report what the check() and the sync() of an      *)
(* action of that class with the parent's relative directory and           *)
(* destination name would; with no proxy both raise nothing and change     *)
(* nothing.                                                                *)
(***************************************************************************)
Forwarders ==
    {"SymlinkForwarder", "EmptyForwarder", "TextForwarder", "IgnoreForwarder"}

Signal(a) == RunScript(ScriptOf(a))

ForwardedStep(op) ==
    /\ step.op = op
    /\ StepAction.cls = "Programmable"
    /\ isfile(fsStart, source_path(StepAction))
    /\ Signal(StepAction).sig \in Forwarders

\* the action the signal stands for, made on its own
Standalone(a) ==
    LET e == Signal(a)
    IN  CASE e.sig = "SymlinkForwarder" -> NewAction("Symlink", a.relpath, e.arg, a.dest)
          [] e.sig = "EmptyForwarder" ->
                 [NewAction("Empty", a.relpath, <<>>, a.dest) EXCEPT !.srcNone = TRUE]
          [] e.sig = "TextForwarder" -> NewAction("Text", a.relpath, e.arg, a.dest)

SameOutcome(r) == r.fs = fs /\ r.err = step.err /\ r.msgs = step.msgs

C14_ProxyDelegation ==
    /\ ForwardedStep("check") =>
          IF Signal(StepAction).sig = "IgnoreForwarder"
          THEN StepAction.proxy.cls = "None" /\ step.err = "" /\ fs = fsPre
          ELSE /\ StepAction.proxy.cls = Standalone(StepAction).cls
               /\ Signal(StepAction).sig = "TextForwarder"
                     => StepAction.proxy.text = Signal(StepAction).arg
               /\ ProxyAction(StepAction) = ProxyCheck(fsPre, Standalone(StepAction)).a
               /\ SameOutcome(ProxyCheck(fsPre, Standalone(StepAction)))
    /\ ForwardedStep("apply") =>
          IF Signal(StepAction).sig = "IgnoreForwarder"
          THEN step.err = "" /\ fs = fsPre /\ step.msgs = <<>>
          ELSE SameOutcome(ProxySync(fsPre, ProxyCheck(fsPre, Standalone(StepAction)).a))

\* the sync() of a programmable action has written the text its script
\* rendered to a destination that did not exist
C14_Witness ==
    /\ ForwardedStep("apply")
    /\ Signal(StepAction).sig = "TextForwarder"
    /\ ~lexists(fsPre, dest_path(StepAction))
    /\ IsRegular(fs, dest_path(StepAction))
    /\ ReadFile(fs, dest_path(StepAction)) = T
    /\ step.err = ""

(***************************************************************************)
(* C15: when the script of a programmable action ends without raising a    *)
(* Forwarder, its check() raises "Unknown result", the action has no       *)
(* proxy, and the call ends there: no sync() of any action has been        *)
(* invoked and the file system is the one the call started from.           *)
(***************************************************************************)
C15_NoSignalAborts ==
    /\ step.op = "check"
    /\ StepAction.cls = "Programmable"
    /\ isfile(fsStart, source_path(StepAction))
    /\ Signal(StepAction).sig = "Return"
    => /\ step.err = "Unknown result"
       /\ err = "Unknown result"
       /\ StepAction.proxy = ProxyUnset
       /\ pc = "idle"
       /\ nApplied = 0
       /\ fs = fsStart

\* a script that only returns was met after the check() of another action
\* had passed
C15_Witness ==
    /\ step.op = "check"
    /\ step.i = 2
    /\ nChecked = 2
    /\ StepAction.cls = "Programmable"
    /\ ScriptOf(StepAction) = <<"pass">>
    /\ step.err = "Unknown result"

(***************************************************************************)
(* C16: within one call, the script of a programmable action is executed   *)
(* once by its check() and the proxy assigned once there, and never by a   *)
(* sync(): when check() has been invoked on the first k actions of the     *)
(* tree, each script among them has run exactly once and no other has run, *)
(* so that every script has run exactly once when the apply pass starts.   *)
(* The proxy sync() works with is the one check() built from the signal.   *)
(***************************************************************************)
ProgrammableAt(i) ==
    /\ tree[i].cls = "Programmable"
    /\ isfile(fsStart, source_path(tree[i]))

ForwardingAt(i) == ProgrammableAt(i) /\ Signal(tree[i]).sig \in Forwarders

C16_SingleResolution ==
    /\ step.op = "apply" => step.runs = 0 /\ step.sets = 0
    /\ step.op = "check"
          => /\ step.runs = IF ProgrammableAt(step.i) THEN 1 ELSE 0
             /\ step.sets = IF ForwardingAt(step.i) THEN 1 ELSE 0
    /\ nExec = Cardinality({i \in 1..nChecked : ProgrammableAt(i)})
    /\ nSet = Cardinality({i \in 1..nChecked : ForwardingAt(i)})
    /\ pc = "sync" \/ nApplied > 0
          => /\ nExec = Cardinality({i \in DOMAIN tree : ProgrammableAt(i)})
             /\ nSet = nExec
    /\ ForwardedStep("apply")
          => IF Signal(StepAction).sig = "IgnoreForwarder"
             THEN StepAction.proxy = ProxyNone
             ELSE ProxyAction(StepAction) = ProxyCheck(fsPre, Standalone(StepAction)).a

\* the sync() of a programmable action, second of two actions, has run
\* with the one proxy of the call
C16_Witness ==
    /\ step.op = "apply"
    /\ step.i = 2
    /\ StepAction.cls = "Programmable"
    /\ StepAction.proxy.cls = "Symlink"
    /\ step.err = ""
    /\ nExec = 1
    /\ nSet = 1
    /\ call = "sync"

(***************************************************************************)
(* C17: after analyze, no action of the tree has the empty destination     *)
(* name, and no action's destination path is the destination directory.    *)
(***************************************************************************)
C17_DestNameNeverEmpty ==
    Analyzed =>
        \A i \in DOMAIN tree :
            /\ tree[i].dest # <<>>
            /\ dest_path(tree[i]) # Dest

(***************************************************************************)
(* C18: after analyze, a directory whose name carries ".F", met in a       *)
(* directory the walk visits, has at most one action in the tree, under    *)
(* its parent's relative directory, of the class the registry gives its    *)
(* name and with ".F" taken off the destination name; nothing beneath such *)
(* a directory has an action.  When analyze raised nothing, such a         *)
(* directory and every file of a visited directory have exactly one action *)
(* when the registry gives them a destination name, none when it tells to  *)
(* ignore them.                                                            *)
(***************************************************************************)
\* the positions of the tree that hold an action for the source path c
ActionsOf(c) ==
    {i \in DOMAIN tree : source_path(tree[i]) = c
                           /\ tree[i].relpath = RelPath(Front(c), Source)}

\* c lies beneath a directory of the source whose name carries ".F"
BeneathActAsFile(c) ==
    \E k \in (Len(Source) + 1)..(Len(c) - 1) : ActAsFile(c[k])

Visited(f) == IF KindAt(f, Source) = "dir" THEN WalkedFrom(f, Source) ELSE {}

C18_ActAsFileDirectories ==
    Analyzed =>
        /\ \A i \in DOMAIN tree : ~BeneathActAsFile(source_path(tree[i]))
        /\ \A c \in DOMAIN fsStart : BeneathActAsFile(c) => ActionsOf(c) = {}
        /\ \A p \in Visited(fsStart) : \A c \in Children(fsStart, p) :
              LET g == GetFileClass(classes, Last(c))
                  asDir == isdir(fsStart, c) /\ ActAsFile(Last(c))
              IN  /\ isdir(fsStart, c) /\ ~asDir => ActionsOf(c) = {}
                  /\ ~isdir(fsStart, c) \/ asDir
                        => /\ Cardinality(ActionsOf(c)) <= 1
                           /\ \A i \in ActionsOf(c) :
                                 /\ tree[i].cls = g.cls
                                 /\ g.verdict.kind = "Str"
                                 /\ tree[i].dest = IF asDir
                                                   THEN ReSubEnd(g.verdict.dest, DOT_F)
                                                   ELSE g.verdict.dest
                           /\ err \notin AnalysisErrors
                                 => Cardinality(ActionsOf(c))
                                       = IF g.verdict.kind = "Str" THEN 1 ELSE 0

\* a directory x.F that holds a file has got its one action, for the
\* destination name x
C18_Witness ==
    /\ Analyzed
    /\ err = ""
    /\ isfile(fsStart, Append(InSource(NameX \o DOT_F), NameF))
    /\ \E i \in DOMAIN tree :
          /\ tree[i].source = NameX \o DOT_F
          /\ tree[i].dest = NameX
          /\ tree[i].cls = "Symlink"
    /\ Len(tree) = 1

(***************************************************************************)
(* C19: after an analyze that raised nothing, no action's destination path *)
(* is another action's destination path or leads to it; and no sync() of   *)
(* an action creates, changes or removes anything under the source         *)
(* directory.                                                              *)
(***************************************************************************)
UnderSource(f) == {p \in DOMAIN f : StartsWith(p, Source)}

C19_DisjointDestinations ==
    /\ Analyzed /\ err \notin AnalysisErrors
          => \A i, j \in DOMAIN tree :
                i # j => ~StartsWith(dest_path(tree[j]), dest_path(tree[i]))
    /\ step.op = "apply"
          => /\ UnderSource(fs) = UnderSource(fsPre)
             /\ \A p \in UnderSource(fs) : fs[p] = fsPre[p]

=============================================================================
